---------------------------- MODULE Spec2Model ----------------------------
(***************************************************************************)
(* A model of package cmdargs (cmdargs.go, datatypes.go).                  *)
(*                                                                         *)
(* A Go string is a sequence of one-character strings, so that prefixes,   *)
(* '=' signs, blanks and quotes are what the code sees.  Go indices are    *)
(* 0-based and are kept 0-based in every value of the model (argIdx,       *)
(* newIdx, index); At(s, i) reads element i of a Go slice.                 *)
(*                                                                         *)
(* The registry is a heap: aliases maps a key to the identity (a number)   *)
(* of a paramType object, defs maps an identity to the object's fields.    *)
(* An object no key points to is unreachable in Go and is dropped.         *)
(***************************************************************************)
EXTENDS Integers, Sequences, FiniteSets, TLC

VARIABLES aliases,   \* Parameter.aliases: key -> identity of its paramType
          defs,      \* the paramType objects: identity -> [name, numArgs]
          options,   \* Parameter.options: sequence of [name, value]
          extra,     \* Parameter.extra
          self,      \* Parameter.self
          ret        \* the last call: its operation, inputs and outcome

vars == <<aliases, defs, options, extra, self, ret>>

-----------------------------------------------------------------------------
(* Bounds of the model                                                     *)

\* longest argument vector handed to Evaluate
MaxArgs == 3
\* largest numArgs handed to AddParameter
MaxArity == 2

-----------------------------------------------------------------------------
(* Strings                                                                 *)

At(s, i) == s[i + 1]

Range(f) == {f[x] : x \in DOMAIN f}

\* the element of a one-element set: Only({F(x) : x \in {e}}) is F(e) with e
\* evaluated once
Only(S) == CHOOSE x \in S : TRUE

\* s[from:] of Go
Drop(s, from) == SubSeq(s, from + 1, Len(s))

\* s[:to] of Go
Take(s, to) == SubSeq(s, 1, to)

HasPrefix2(name) == Len(name) >= 2 /\ name[1] = "-" /\ name[2] = "-"

HasPrefix1(name) == Len(name) >= 1 /\ name[1] = "-"

getOptionName(name) ==
    IF HasPrefix2(name) THEN Drop(name, 2)
    ELSE IF HasPrefix1(name) THEN Drop(name, 1)
    ELSE name

isOption(name) ==
    (Len(name) > 2 /\ HasPrefix2(name)) \/ (Len(name) > 1 /\ HasPrefix1(name))


-----------------------------------------------------------------------------
(* The registry: AddParameter and RemoveParameter                          *)

\* every sequence over S of length at most n
SeqsUpTo(S, n) == UNION {[1..k -> S] : k \in 0..n}

\* the identity given to a newly allocated paramType: the least one no key holds
NewId(al) ==
    CHOOSE i \in 1..(Cardinality(Range(al)) + 1) :
        i \notin Range(al) /\ \A j \in 1..(i - 1) : j \in Range(al)

\* the objects still reachable from the alias map
Live(al, ds) == [i \in Range(al) |-> ds[i]]

\* lines 76-80: every alias is normalized in place
NormAliases(als) == [i \in 1..Len(als) |-> getOptionName(als[i])]

\* ClampNumArgs without the clamp
ClampNumArgsMissing(numArgs) == numArgs

\* line 81
ClampNumArgs(numArgs) == IF numArgs < 0 THEN 0 ELSE numArgs

\* lines 90-96: the keys the call binds besides name
AliasKeys(als) == {als[i] : i \in {j \in 1..Len(als) : Len(als[j]) > 0}}

\* The registry after AddParameter(name0, aliases0, numArgs0) on registry (al, ds).
\* A nil alias list and an empty one behave alike and are both <<>>.
AddParameterResult(al, ds, name0, aliases0, numArgs0) ==
    LET name    == getOptionName(name0)
        als     == NormAliases(aliases0)
        numArgs == ClampNumArgs(numArgs0)
        ok      == name \in DOMAIN al
        p       == IF ok THEN al[name] ELSE NewId(al)
        obj     == [name    |-> IF ok THEN ds[p].name ELSE name,
                    numArgs |-> numArgs]
        ds1     == [i \in (DOMAIN ds) \cup {p} |-> IF i = p THEN obj ELSE ds[i]]
        keys    == {name} \cup AliasKeys(als)
        al1     == [k \in (DOMAIN al) \cup keys |-> IF k \in keys THEN p ELSE al[k]]
    IN  IF Len(name) = 0
        THEN [aliases |-> al, defs |-> ds]
        ELSE [aliases |-> al1, defs |-> Live(al1, ds1)]

\* The registry after RemoveParameter(name0) on registry (al, ds), and its return.
RemoveParameterResult(al, ds, name0) ==
    LET name == getOptionName(name0)
        ok   == name \in DOMAIN al
        long == ds[al[name]].name
        al1  == [k \in {a \in DOMAIN al : ds[al[a]].name # long} |-> al[k]]
    IN  IF ok
        THEN [aliases |-> al1, defs |-> Live(al1, ds), ok |-> TRUE]
        ELSE [aliases |-> al, defs |-> ds, ok |-> FALSE]

AddParameter(name, als, numArgs) ==
    LET r == AddParameterResult(aliases, defs, name, als, numArgs)
    IN  /\ aliases' = r.aliases
        /\ defs' = r.defs
        /\ ret' = [op |-> "AddParameter", ok |-> getOptionName(name) \in DOMAIN aliases]
        /\ UNCHANGED <<options, extra, self>>

RemoveParameter(name) ==
    LET r == RemoveParameterResult(aliases, defs, name)
    IN  /\ aliases' = r.aliases
        /\ defs' = r.defs
        /\ ret' = [op |-> "RemoveParameter", ok |-> r.ok]
        /\ UNCHANGED <<options, extra, self>>

-----------------------------------------------------------------------------
(* Evaluate                                                                *)

RECURSIVE SplitAcc(_, _, _, _)
SplitAcc(s, sep, cur, acc) ==
    IF s = <<>> THEN Append(acc, cur)
    ELSE IF Head(s) = sep THEN SplitAcc(Tail(s), sep, <<>>, Append(acc, cur))
    ELSE SplitAcc(Tail(s), sep, Append(cur, Head(s)), acc)

\* strings.Split(s, sep) for a one-character sep: never an empty slice
Split(s, sep) == SplitAcc(s, sep, <<>>, <<>>)

IsSpace(c) == c = " "

RECURSIVE TrimLeft(_)
TrimLeft(s) == IF s # <<>> /\ IsSpace(Head(s)) THEN TrimLeft(Tail(s)) ELSE s

RECURSIVE TrimRight(_)
TrimRight(s) ==
    IF s # <<>> /\ IsSpace(s[Len(s)]) THEN TrimRight(Take(s, Len(s) - 1)) ELSE s

\* strings.TrimSpace
TrimSpace(s) == TrimRight(TrimLeft(s))

Quote == "\""

\* trimArg that tests the first character alone before it strips
trimArgLeadingOnly(arg0) ==
    LET arg == TrimSpace(arg0)
    IN  IF Len(arg) > 0 /\ arg[1] = Quote
        THEN LET arg1 == Drop(arg, 1)
             IN  IF Len(arg1) > 0 /\ arg1[Len(arg1)] = Quote
                 THEN Take(arg1, Len(arg1) - 1)
                 ELSE arg1
        ELSE arg

\* lines 363-375
trimArg(arg0) ==
    LET arg == TrimSpace(arg0)
    IN  IF Len(arg) > 0 /\ arg[1] = Quote /\ arg[Len(arg)] = Quote
        THEN LET arg1 == Drop(arg, 1)
             IN  IF Len(arg1) > 0 /\ arg1[Len(arg1)] = Quote
                 THEN Take(arg1, Len(arg1) - 1)
                 ELSE arg1
        ELSE arg

\* LongOptionNameIn answering the name asked for when it is no key
LongOptionNameOrAlias(al, ds, alias0) ==
    LET alias == getOptionName(alias0)
    IN  IF Len(alias) > 0 /\ alias \in DOMAIN al THEN ds[al[alias]].name ELSE alias

\* getLongOptionName over registry (al, ds)
LongOptionNameIn(al, ds, alias0) ==
    LET alias == getOptionName(alias0)
    IN  IF Len(alias) > 0 /\ alias \in DOMAIN al THEN ds[al[alias]].name ELSE <<>>

getLongOptionName(alias) == LongOptionNameIn(aliases, defs, alias)

NilError == [kind |-> "nil"]

\* fmt.Errorf("Unrecognized option: \"--%s\" or \"-%s\"", name, name)
UnrecognizedError(name) == [kind |-> "Unrecognized option", name |-> name]

\* fmt.Errorf("Too few option arguments: available=%d, need=%d", numRemaining, numArgs)
TooFewError(numRemaining, numArgs) ==
    [kind |-> "Too few option arguments", available |-> numRemaining, need |-> numArgs]

\* errors.New("Fatal: Deadlock while evaluating parameters")
DeadlockError == [kind |-> "Deadlock"]

\* lines 334-339: s after the loop that rejoins the fragments.  The loop reads
\* args[i], the argument vector, for i = 2 .. len(args0)-1.
RECURSIVE RejoinFrom(_, _, _, _)
RejoinFrom(args, args0, i, s) ==
    IF i < Len(args0) THEN RejoinFrom(args, args0, i + 1, s \o <<"=">> \o At(args, i))
    ELSE s

\* FoldedValue with line 334 reading args0[0], the name fragment
FoldedValueFromName(args, args0) == trimArg(RejoinFrom(args, args0, 2, args0[1]))

\* lines 334-340: the first argument value, folded out of the option token
FoldedValue(args, args0) == trimArg(RejoinFrom(args, args0, 2, args0[2]))

\* OptionNameOf without the prefix stripped
OptionNameRaw(args0) == args0[1]

\* line 324
OptionNameOf(args0) == getOptionName(args0[1])

\* lines 335-339 index args[i] out of range when the vector is that short
RejoinPanics(args, args0) == \E i \in 2..(Len(args0) - 1) : i >= Len(args)

\* lines 351-354: the numArgs tokens from newIdx on, each trimmed
TakeArgs(args, newIdx, numArgs) ==
    [k \in 1..numArgs |-> trimArg(At(args, newIdx + k - 1))]

\* Folds without the test of the arity
FoldsAnyArity(numArgs, args0) == Len(args0) > 1

\* line 333: the fragment after '=' is taken as the first argument value
Folds(numArgs, args0) == numArgs > 0 /\ Len(args0) > 1

\* NextIndex without the step past the option token
NextIndexSame(index) == index

\* line 325: newIdx++ once the token is known to be an option
NextIndex(index) == index + 1

\* evalArg(args, index) over registry (al, ds): its four results, and whether it
\* panicked (then the results are never delivered)
evalArg(al, ds, args, index) ==
    LET none   == [name |-> <<>>, arg |-> [name |-> <<>>, value |-> <<>>],
                   newIdx |-> index, err |-> NilError, panic |-> FALSE]
        args0  == Split(At(args, index), "=")
        name   == OptionNameOf(args0)
        newIdx == NextIndex(index)
        ok     == name \in DOMAIN al
        def    == ds[al[name]]
        folded == Folds(def.numArgs, args0)
        value1 == IF folded THEN <<FoldedValue(args, args0)>> ELSE <<>>
        numArgs == IF folded THEN def.numArgs - 1 ELSE def.numArgs
        numRemaining == Len(args) - newIdx
        long   == LongOptionNameIn(al, ds, name)
    IN  IF index < 0 \/ index >= Len(args) THEN none
        ELSE IF ~isOption(At(args, index)) THEN none
        ELSE IF ~ok
        THEN [none EXCEPT !.name = name, !.newIdx = newIdx,
                          !.err = UnrecognizedError(name)]
        ELSE IF folded /\ RejoinPanics(args, args0)
        THEN [none EXCEPT !.name = name, !.newIdx = newIdx, !.panic = TRUE]
        ELSE IF numRemaining < numArgs
        THEN [none EXCEPT !.name = name, !.newIdx = newIdx,
                          !.arg = [name |-> <<>>, value |-> value1],
                          !.err = TooFewError(numRemaining, numArgs)]
        ELSE [name   |-> long,
              arg    |-> [name |-> long,
                          value |-> value1 \o TakeArgs(args, newIdx, numArgs)],
              newIdx |-> IF numArgs > 0 THEN newIdx + numArgs ELSE newIdx,
              err    |-> NilError,
              panic  |-> FALSE]

\* lines 138-148: the option loop from argIdx on, with opts parsed so far; trace
\* lists the index each iteration started at
RECURSIVE OptionLoop(_, _, _, _, _, _)
OptionLoop(al, ds, args, argIdx, opts, trace) ==
    IF argIdx >= Len(args)
    THEN [options |-> opts, argIdx |-> argIdx, err |-> NilError,
          panic |-> FALSE, trace |-> trace]
    ELSE Only({
         IF r.panic
         THEN [options |-> opts, argIdx |-> argIdx, err |-> NilError,
               panic |-> TRUE, trace |-> Append(trace, argIdx)]
         ELSE IF r.err # NilError
         THEN [options |-> opts, argIdx |-> r.newIdx, err |-> r.err,
               panic |-> FALSE, trace |-> Append(trace, argIdx)]
         ELSE IF r.name = <<>>
         THEN [options |-> opts, argIdx |-> r.newIdx, err |-> NilError,
               panic |-> FALSE, trace |-> Append(trace, argIdx)]
         ELSE IF r.newIdx = argIdx
         THEN [options |-> opts, argIdx |-> r.newIdx, err |-> DeadlockError,
               panic |-> FALSE, trace |-> Append(trace, argIdx)]
         ELSE OptionLoop(al, ds, args, r.newIdx, Append(opts, r.arg),
                         Append(trace, argIdx))
         : r \in {evalArg(al, ds, args, argIdx)} })

\* reset that leaves the options it finds
resetKeepingOptions(opts, ext, slf) ==
    [options |-> opts, extra |-> <<>>, self |-> <<>>]

\* lines 302-310: the three result fields after reset()
reset(opts, ext, slf) ==
    [options |-> IF Len(opts) # 0 THEN <<>> ELSE opts,
     extra   |-> IF Len(ext) # 0 THEN <<>> ELSE ext,
     self    |-> <<>>]

\* ExtraFrom that skips the token the option loop stopped at
ExtraFromNext(ext, args, argIdx) == ext \o Drop(args, argIdx + 1)

\* lines 151-153: every token from argIdx on is appended to param.extra
ExtraFrom(ext, args, argIdx) == ext \o Drop(args, argIdx)

\* Evaluate(args) for a non-empty args over registry (al, ds), from line 129 on;
\* cur holds the fields as reset() left them.  The result: the fields it
\* leaves, its error, whether it panicked, the last argIdx and the loop's trace
EvaluateResult(al, ds, cur, args) ==
    LET noSelf == isOption(At(args, 0))
    IN  Only({
        [options |-> loop.options,
         extra   |-> IF ~loop.panic /\ loop.err = NilError
                     THEN ExtraFrom(cur.extra, args, loop.argIdx) ELSE cur.extra,
         self    |-> IF noSelf THEN cur.self ELSE At(args, 0),
         err     |-> loop.err,
         panic   |-> loop.panic,
         argIdx  |-> loop.argIdx,
         trace   |-> loop.trace]
        : loop \in {OptionLoop(al, ds, args, IF noSelf THEN 0 ELSE 1,
                               cur.options, <<>>)} })

\* EmptyCall with reset() called before the test of line 126
EmptyCallAfterReset(opts, ext, slf) == reset(opts, ext, slf)

\* line 126: a nil or empty args returns before reset(), the fields stay
EmptyCall(opts, ext, slf) == [options |-> opts, extra |-> ext, self |-> slf]

\* ret.again: the call before this one was Evaluate with the same args
Evaluate(args) ==
    IF Len(args) = 0
    THEN \E r \in {EmptyCall(options, extra, self)} :
             /\ options' = r.options
             /\ extra' = r.extra
             /\ self' = r.self
             /\ ret' = [op |-> "Evaluate", args |-> args, err |-> NilError,
                        panic |-> FALSE, argIdx |-> 0, trace |-> <<>>,
                        again |-> ret.op = "Evaluate" /\ ret.args = args]
             /\ UNCHANGED <<aliases, defs>>
    ELSE \E r \in {EvaluateResult(aliases, defs, reset(options, extra, self), args)} :
             /\ options' = r.options
             /\ extra' = r.extra
             /\ self' = r.self
             /\ ret' = [op |-> "Evaluate", args |-> args, err |-> r.err,
                        panic |-> r.panic, argIdx |-> r.argIdx, trace |-> r.trace,
                        again |-> ret.op = "Evaluate" /\ ret.args = args]
             /\ UNCHANGED <<aliases, defs>>

-----------------------------------------------------------------------------
(* The query functions                                                     *)

GetArgSelf == self

GetArgExtraLength == Len(extra)

GetArgLength == Len(options)

\* GetArgExtra(index): its value, or a panic on param.extra[index] out of range
GetArgExtraResult(index) ==
    IF index < 0 \/ index > GetArgExtraLength
    THEN [panic |-> FALSE, value |-> <<>>]
    ELSE IF index >= Len(extra)
    THEN [panic |-> TRUE, value |-> <<>>]
    ELSE [panic |-> FALSE, value |-> At(extra, index)]

GetArgExtra(index) ==
    /\ ret' = [op |-> "GetArgExtra", index |-> index,
               panic |-> GetArgExtraResult(index).panic,
               value |-> GetArgExtraResult(index).value]
    /\ UNCHANGED <<aliases, defs, options, extra, self>>

GetArgExistsResult(name0) ==
    LET name == getLongOptionName(name0)
    IN  Len(name) > 0 /\ \E i \in 1..Len(options) : options[i].name = name

GetArgExists(name) ==
    /\ ret' = [op |-> "GetArgExists", name |-> name,
               value |-> GetArgExistsResult(name)]
    /\ UNCHANGED <<aliases, defs, options, extra, self>>

\* the zero Argument: Index 0, Name "", Arguments nil
NoArgument == [Index |-> 0, Name |-> <<>>, Arguments |-> <<>>]

\* ArgPosition counting a negative index from the last option
ArgPositionFromLast(index) ==
    IF index < 0 THEN Len(options) - 1 + index ELSE index

\* lines 260-262: a negative index counts from behind the last option
ArgPosition(index) == IF index < 0 THEN Len(options) + index ELSE index

\* GetArgAt(index): the Argument and whether an error is returned
GetArgAtResult(index0) ==
    LET index == ArgPosition(index0)
    IN  IF index < 0 \/ index >= Len(options)
        THEN [arg |-> NoArgument, err |-> TRUE]
        ELSE [arg |-> [Index     |-> index,
                       Name      |-> At(options, index).name,
                       Arguments |-> At(options, index).value],
              err |-> FALSE]

GetArgAt(index) ==
    /\ ret' = [op |-> "GetArgAt", index |-> index,
               arg |-> GetArgAtResult(index).arg, err |-> GetArgAtResult(index).err]
    /\ UNCHANGED <<aliases, defs, options, extra, self>>

\* lines 239-243: pos and exists when the loop from pos to limit ends
RECURSIVE SearchFrom(_, _, _, _)
SearchFrom(name, pos, limit, inc) ==
    IF pos = limit THEN [pos |-> pos, exists |-> FALSE]
    ELSE IF At(options, pos).name = name THEN [pos |-> pos, exists |-> TRUE]
    ELSE SearchFrom(name, pos + inc, limit, inc)

\* ReversePos that leaves the position as the loop found it
ReversePosKept(pos) == pos

\* lines 245-247: a backward search answers relative to behind the last option
ReversePos(pos) == pos - Len(options)

\* GetArgIndex(name, startIndex): pos and exists
GetArgIndexResult(name0, startIndex) ==
    LET name    == getLongOptionName(name0)
        reverse == startIndex < 0
        start   == IF reverse THEN Len(options) + startIndex ELSE startIndex
        found   == SearchFrom(name, start, IF reverse THEN 0 - 1 ELSE Len(options),
                              IF reverse THEN 0 - 1 ELSE 1)
    IN  IF Len(name) = 0 THEN [pos |-> startIndex, exists |-> FALSE]
        ELSE IF reverse /\ start < 0 THEN [pos |-> startIndex, exists |-> FALSE]
        ELSE IF ~reverse /\ start >= Len(options)
        THEN [pos |-> startIndex, exists |-> FALSE]
        ELSE [pos    |-> IF reverse THEN ReversePos(found.pos) ELSE found.pos,
              exists |-> found.exists]

GetArgIndex(name, startIndex) ==
    /\ ret' = [op |-> "GetArgIndex", name |-> name, startIndex |-> startIndex,
               pos    |-> GetArgIndexResult(name, startIndex).pos,
               exists |-> GetArgIndexResult(name, startIndex).exists]
    /\ UNCHANGED <<aliases, defs, options, extra, self>>

\* lines 279-285 and 291-297: GetArgAt at the index GetArgIndex found
ArgOfResult(name, startIndex) ==
    LET idx == GetArgIndexResult(name, startIndex)
    IN  IF idx.exists
        THEN [arg |-> GetArgAtResult(idx.pos).arg, exists |-> ~GetArgAtResult(idx.pos).err]
        ELSE [arg |-> NoArgument, exists |-> FALSE]

GetFirstArgOfResult(name) == ArgOfResult(name, 0)

GetLastArgOfResult(name) == ArgOfResult(name, 0 - 1)

GetFirstArgOf(name) ==
    /\ ret' = [op |-> "GetFirstArgOf", name |-> name,
               arg |-> GetFirstArgOfResult(name).arg,
               exists |-> GetFirstArgOfResult(name).exists]
    /\ UNCHANGED <<aliases, defs, options, extra, self>>

GetLastArgOf(name) ==
    /\ ret' = [op |-> "GetLastArgOf", name |-> name,
               arg |-> GetLastArgOfResult(name).arg,
               exists |-> GetLastArgOfResult(name).exists]
    /\ UNCHANGED <<aliases, defs, options, extra, self>>

-----------------------------------------------------------------------------
(* datatypes.go: String.Int and the strconv functions it calls.  An int64  *)
(* is a sign and its decimal digits, so that no value outgrows the         *)
(* integers of the checker.  No string of the model holds '_', 'p', or the *)
(* letters of "inf" and "nan", so those forms of strconv are left out.     *)

DecDigits == <<"0", "1", "2", "3", "4", "5", "6", "7", "8", "9">>

LowerHex == DecDigits \o <<"a", "b", "c", "d", "e", "f">>

UpperHex == DecDigits \o <<"A", "B", "C", "D", "E", "F">>

IsDigit(c) == c \in Range(DecDigits)

\* the value of the digit c in base 16, or 16 when c is no digit
DigitVal(c) ==
    IF c \in Range(LowerHex) THEN (CHOOSE i \in 1..16 : LowerHex[i] = c) - 1
    ELSE IF c \in Range(UpperHex) THEN (CHOOSE i \in 1..16 : UpperHex[i] = c) - 1
    ELSE 16

\* the number the digits s spell in the base, most significant first
RECURSIVE NumberIn(_, _, _)
NumberIn(s, base, acc) ==
    IF s = <<>> THEN acc ELSE NumberIn(Tail(s), base, acc * base + DigitVal(Head(s)))

\* the decimal digits of n >= 0, most significant first
RECURSIVE DigitsOf(_)
DigitsOf(n) ==
    IF n < 10 THEN <<DecDigits[n + 1]>>
    ELSE Append(DigitsOf(n \div 10), DecDigits[(n % 10) + 1])

RECURSIVE StripZeros(_)
StripZeros(d) ==
    IF Len(d) > 1 /\ Head(d) = "0" THEN StripZeros(Tail(d)) ELSE d

\* an int64: zero is not negative and is the one digit 0
Int64(neg, digits) ==
    LET d == StripZeros(digits)
    IN  [neg |-> neg /\ d # <<"0">>, digits |-> d]

Zero64 == Int64(FALSE, <<"0">>)

One64 == Int64(FALSE, <<"1">>)

MaxInt64 == Int64(FALSE, DigitsOf(922337) \o DigitsOf(203685) \o DigitsOf(4775807))

MinInt64 == Int64(TRUE, DigitsOf(922337) \o DigitsOf(203685) \o DigitsOf(4775808))

\* strconv.ParseUint(s, 0, 64): base 16, 2 or 8 after "0x", "0b" or "0o" when
\* digits follow, base 8 after any other leading "0", else base 10
ParseUint(s) ==
    LET pre  == Len(s) >= 3 /\ s[1] = "0" /\ s[2] \in {"x", "X", "b", "B", "o", "O"}
        base == IF Len(s) = 0 \/ s[1] # "0" THEN 10
                ELSE IF pre /\ s[2] \in {"x", "X"} THEN 16
                ELSE IF pre /\ s[2] \in {"b", "B"} THEN 2
                ELSE 8
        body == IF Len(s) = 0 \/ s[1] # "0" THEN s
                ELSE IF pre THEN Drop(s, 2) ELSE Drop(s, 1)
    IN  IF Len(s) = 0 THEN [ok |-> FALSE, val |-> 0]
        ELSE IF \E i \in 1..Len(body) : DigitVal(body[i]) >= base
        THEN [ok |-> FALSE, val |-> 0]
        ELSE [ok |-> TRUE, val |-> NumberIn(body, base, 0)]

\* strconv.ParseInt(s, 0, 64)
ParseInt(s) ==
    LET signed == Len(s) > 0 /\ s[1] \in {"+", "-"}
        u      == ParseUint(IF signed THEN Tail(s) ELSE s)
    IN  IF Len(s) = 0 \/ ~u.ok THEN [ok |-> FALSE, val |-> Zero64]
        ELSE [ok |-> TRUE, val |-> Int64(signed /\ s[1] = "-", DigitsOf(u.val))]

\* the longest prefix of s made of decimal digits
RECURSIVE TakeDigits(_)
TakeDigits(s) ==
    IF s # <<>> /\ IsDigit(Head(s)) THEN <<Head(s)>> \o TakeDigits(Tail(s)) ELSE <<>>

\* a and b, digit strings of one length: a <= b
RECURSIVE DigitsLeq(_, _)
DigitsLeq(a, b) ==
    IF a = <<>> THEN TRUE
    ELSE IF Head(a) # Head(b) THEN DigitVal(Head(a)) < DigitVal(Head(b))
    ELSE DigitsLeq(Tail(a), Tail(b))

\* strconv.ParseFloat(s, 64) of a decimal literal: sign, digits with at most
\* one '.', an optional exponent of 'e', a sign and digits.  The float is
\* kept as the literal reads: neg, the digits from the first that is not 0,
\* and point, the number of them before the decimal point once the exponent
\* is applied (zero is the digit 0 with point 0).  A literal beyond
\* the largest float64 (about 1.797e308) is a range error.  "0x..." is a
\* hexadecimal mantissa, a syntax error without a 'p' exponent.
ParseFloat(s) ==
    LET signed == Len(s) > 0 /\ s[1] \in {"+", "-"}
        s1     == IF signed THEN Tail(s) ELSE s
        hex    == Len(s1) > 2 /\ s1[1] = "0" /\ s1[2] \in {"x", "X"}
        ip     == TakeDigits(s1)
        r1     == Drop(s1, Len(ip))
        dot    == r1 # <<>> /\ Head(r1) = "."
        fp     == IF dot THEN TakeDigits(Tail(r1)) ELSE <<>>
        r2     == IF dot THEN Drop(r1, 1 + Len(fp)) ELSE r1
        hasExp == r2 # <<>> /\ Head(r2) \in {"e", "E"}
        r3     == IF hasExp THEN Tail(r2) ELSE r2
        esign  == hasExp /\ r3 # <<>> /\ Head(r3) \in {"+", "-"}
        r4     == IF esign THEN Tail(r3) ELSE r3
        ed     == IF hasExp THEN TakeDigits(r4) ELSE <<>>
        r5     == Drop(r4, Len(ed))
        exp    == IF ~hasExp THEN 0
                  ELSE IF esign /\ Head(r3) = "-" THEN 0 - NumberIn(ed, 10, 0)
                  ELSE NumberIn(ed, 10, 0)
        digits == ip \o fp
        lead   == Len(digits) - Len(StripZeros(digits))
        isZero == \A i \in 1..Len(digits) : digits[i] = "0"
        \* the value is 0.d1d2d3... * 10^mag, d1 the first digit that is not 0
        mag    == Len(ip) + exp - lead
        first4 == NumberIn([i \in 1..4 |-> IF lead + i <= Len(digits)
                                           THEN digits[lead + i] ELSE "0"], 10, 0)
        none   == [ok |-> FALSE, neg |-> FALSE, digits |-> <<>>, point |-> 0]
    IN  IF hex THEN none
        ELSE IF Len(digits) = 0 THEN none
        ELSE IF hasExp /\ Len(ed) = 0 THEN none
        ELSE IF r5 # <<>> THEN none
        ELSE IF ~isZero /\ (mag > 309 \/ (mag = 309 /\ first4 >= 1798)) THEN none
        ELSE IF isZero
        THEN [ok |-> TRUE, neg |-> signed /\ s[1] = "-", digits |-> <<"0">>, point |-> 0]
        ELSE [ok |-> TRUE, neg |-> signed /\ s[1] = "-", digits |-> Drop(digits, lead),
              point |-> mag]

\* the float f cut at its decimal point, as a sign and digits of any length
Truncated(f) ==
    Int64(f.neg, IF f.point <= 0 THEN <<"0">>
                 ELSE [i \in 1..f.point |-> IF i <= Len(f.digits) THEN f.digits[i] ELSE "0"])

\* v lies within int64
FitsInt64(v) ==
    LET limit == IF v.neg THEN MinInt64.digits ELSE MaxInt64.digits
    IN  \/ Len(v.digits) < Len(limit)
        \/ Len(v.digits) = Len(limit) /\ DigitsLeq(v.digits, limit)

\* int64(f): f cut toward zero when that lies within int64; else the value the
\* platform's conversion leaves, the least int64 or, for a positive f on a
\* platform that saturates, the greatest
ToInt64(f) ==
    IF f.point <= Len(MaxInt64.digits) /\ FitsInt64(Truncated(f)) THEN {Truncated(f)}
    ELSE IF f.neg THEN {MinInt64} ELSE {MinInt64, MaxInt64}

\* strconv.ParseBool
ParseBool(s) ==
    IF s \in { <<"1">>, <<"t">>, <<"T">>, <<"T", "R", "U", "E">>,
               <<"t", "r", "u", "e">>, <<"T", "r", "u", "e">> }
    THEN [ok |-> TRUE, val |-> TRUE]
    ELSE IF s \in { <<"0">>, <<"f">>, <<"F">>, <<"F", "A", "L", "S", "E">>,
                    <<"f", "a", "l", "s", "e">>, <<"F", "a", "l", "s", "e">> }
    THEN [ok |-> TRUE, val |-> FALSE]
    ELSE [ok |-> FALSE, val |-> FALSE]

\* String.Int: every (ret, ok) the call can return
IntResults(t) ==
    IF ParseInt(t).ok THEN {[ret |-> ParseInt(t).val, ok |-> TRUE]}
    ELSE IF ParseFloat(t).ok
    THEN {[ret |-> v, ok |-> TRUE] : v \in ToInt64(ParseFloat(t))}
    ELSE IF ParseBool(t).ok
    THEN {[ret |-> IF ParseBool(t).val THEN One64 ELSE Zero64, ok |-> TRUE]}
    ELSE {[ret |-> Zero64, ok |-> FALSE]}

\* String.Int as an operation (Int is the set of integers here)
StringInt(t) ==
    /\ \E r \in IntResults(t) :
           ret' = [op |-> "Int", t |-> t, ret |-> r.ret, ok |-> r.ok]
    /\ UNCHANGED <<aliases, defs, options, extra, self>>

\* Create(): an empty registry and an empty result
Init ==
    /\ aliases = <<>>
    /\ defs = <<>>
    /\ options = <<>>
    /\ extra = <<>>
    /\ self = <<>>
    /\ ret = [op |-> "Create"]

-----------------------------------------------------------------------------
(* The registry alone, under every order of AddParameter and RemoveParameter *)

\* names as a caller writes them: bare, with "-", with "--", and one that
\* normalizes to the empty name
RegNames == { <<"a">>, <<"-", "b">>, <<"-", "-", "c">>, <<"-">> }

\* alias lists: none (nil or empty), one alias, two aliases of which the first
\* normalizes to the empty name
RegAliases ==
    { <<>>, << <<"a">> >>, << <<"-", "b">> >>, << <<"-">>, <<"-", "-", "c">> >> }

RegArities == {0 - 1, MaxArity}

NextRegistry ==
    \/ \E name \in RegNames, als \in RegAliases, numArgs \in RegArities :
           AddParameter(name, als, numArgs)
    \/ \E name \in RegNames : RemoveParameter(name)

SpecRegistry == Init /\ [][NextRegistry]_vars

-----------------------------------------------------------------------------
(* The parser, used as the example program uses it: the registry is set up *)
(* first, then argument vectors are evaluated and queried.  One option "o" *)
(* is registered, removed and registered again with any arity; the vectors *)
(* are all sequences over the token shapes Evaluate tells apart.           *)

Names == { <<"o">>, <<"-", "o">>, <<"-", "-", "o">> }

Arities == (0 - 1)..MaxArity

\* no Evaluate yet
SettingUp == ret.op \in {"Create", "AddParameter", "RemoveParameter"}

SetUp ==
    \/ \E name \in Names, numArgs \in Arities :
           SettingUp /\ AddParameter(name, <<>>, numArgs)
    \/ \E name \in Names : SettingUp /\ RemoveParameter(name)

Tokens ==
    { <<"p">>,                                   \* no option
      <<"-", "-", "o">>,                         \* the option
      <<"-", "-", "o", "=", "a">>,               \* with a first argument
      <<"-", "-", "o", "=", "a", "=", "b">> }    \* with two '=' signs

ArgVectors == SeqsUpTo(Tokens, MaxArgs)

Next ==
    \/ SetUp
    \/ \E args \in ArgVectors : Evaluate(args)

Spec == Init /\ [][Next]_vars

\* the same with an option token that is never registered
ErrTokens ==
    { <<"p">>,
      <<"-", "-", "o">>,
      <<"-", "-", "o", "=", "a">>,
      <<"-", "z", "=", "a">> }

ErrVectors == SeqsUpTo(ErrTokens, MaxArgs)

NextErrors ==
    \/ SetUp
    \/ \E args \in ErrVectors : Evaluate(args)

SpecErrors == Init /\ [][NextErrors]_vars

\* the same with the queries, over vectors of plain words and options
QueryTokens == { <<"p">>, <<"-", "-", "o">> }

QueryVectors == SeqsUpTo(QueryTokens, MaxArgs)

Indexes == (0 - 1)..(MaxArgs + 1)

NextQuery ==
    \/ SetUp
    \/ \E args \in QueryVectors : Evaluate(args)
    \/ \E index \in Indexes : GetArgExtra(index)
    \/ \E name \in Names : GetArgExists(name)

SpecQuery == Init /\ [][NextQuery]_vars

-----------------------------------------------------------------------------
(* Aliases: three names registered in any order, each with any of the      *)
(* others as its alias, then vectors of option tokens evaluated            *)

AliasNames == { <<"a">>, <<"b">>, <<"c">> }

AliasTokens == { <<"-", "-", "a">>, <<"-", "b">> }

AliasVectors == SeqsUpTo(AliasTokens, MaxArgs)

NextAlias ==
    \/ \E name \in AliasNames, als \in SeqsUpTo(AliasNames, 1) :
           SettingUp /\ AddParameter(name, als, 0)
    \/ \E args \in AliasVectors : Evaluate(args)

SpecAlias == Init /\ [][NextAlias]_vars

-----------------------------------------------------------------------------
(* The lookups: options "a" and "b", each alone or with the alias "c", are *)
(* registered, vectors of their tokens are evaluated, options are removed  *)
(* again, and the result is queried by index and by name.  A query changes *)
(* no field of the Parameter, so each is taken as the last call of a run.  *)

LookupOptions == { <<"a">>, <<"b">> }

LookupAliases == { <<>>, << <<"c">> >> }

\* "a" takes one argument value, "b" none
LookupArity(name) == IF name = <<"a">> THEN 1 ELSE 0

LookupTokens == { <<"v">>, <<"-", "-", "a">>, <<"-", "b">> }

LookupVectors == SeqsUpTo(LookupTokens, MaxArgs)

\* names asked for: an option, prefixed, the alias, a name never registered
\* and one that is empty once normalized
LookupNames == { <<"a">>, <<"-", "b">>, <<"c">>, <<"x">>, <<"-">> }

LookupIndexes == (0 - (MaxArgs + 1))..(MaxArgs + 1)

Queried ==
    ret.op \in {"GetArgAt", "GetArgIndex", "GetFirstArgOf", "GetLastArgOf",
                "GetArgExists", "GetArgExtra"}

NextLookup ==
    \/ \E name \in LookupOptions, als \in LookupAliases :
           SettingUp /\ AddParameter(name, als, LookupArity(name))
    \/ \E name \in LookupOptions : ~Queried /\ RemoveParameter(name)
    \/ \E args \in LookupVectors : ~Queried /\ Evaluate(args)
    \/ \E index \in LookupIndexes : ~Queried /\ GetArgAt(index)
    \/ \E name \in LookupNames, startIndex \in LookupIndexes :
           ~Queried /\ GetArgIndex(name, startIndex)
    \/ \E name \in LookupNames : ~Queried /\ GetFirstArgOf(name)
    \/ \E name \in LookupNames : ~Queried /\ GetLastArgOf(name)
    \/ \E name \in LookupNames : ~Queried /\ GetArgExists(name)

SpecLookup == Init /\ [][NextLookup]_vars

-----------------------------------------------------------------------------
(* Int() of every short string over the characters of integers, floats and *)
(* the words of ParseBool; each call is taken on a fresh value             *)

\* longest string handed to Int()
MaxStrLen == 4

IntChars == {"0", "1", "3", "9", "x", "F", ".", "-", "e", "t", "r", "u"}

IntStrings == SeqsUpTo(IntChars, MaxStrLen)

NextInt == \E t \in IntStrings : ret.op = "Create" /\ StringInt(t)

SpecInt == Init /\ [][NextInt]_vars

-----------------------------------------------------------------------------
(* Argument values with blanks and quotes: the option "o" is given every   *)
(* short text over a blank, a double quote, a single quote and a letter,   *)
(* as the token after it and as the fragment after its '='                 *)

\* longest argument value text
MaxValueLen == 3

ValueChars == {" ", Quote, "'", "h"}

ValueTexts == SeqsUpTo(ValueChars, MaxValueLen)

ValueVectors ==
    { << <<"-", "-", "o">>, v >> : v \in ValueTexts }
    \cup { << <<"-", "-", "o", "=">> \o v >> : v \in ValueTexts }

NextValues ==
    \/ SetUp
    \/ \E args \in ValueVectors : Evaluate(args)

SpecValues == Init /\ [][NextValues]_vars

-----------------------------------------------------------------------------
(* Bare hyphens: vectors over a plain word, the option and the tokens "-"  *)
(* and "--"                                                                *)

DashTokens == { <<"p">>, <<"-", "-", "o">>, <<"-">>, <<"-", "-">> }

DashVectors == SeqsUpTo(DashTokens, MaxArgs)

NextDash ==
    \/ SetUp
    \/ \E args \in DashVectors : Evaluate(args)

SpecDash == Init /\ [][NextDash]_vars

-----------------------------------------------------------------------------
(* Progress of the option loop: besides "o" a name written with three      *)
(* hyphens is registered, whose key "-o" keeps a hyphen, and one vector of *)
(* the tokens of both is evaluated                                         *)

ProgressNames == { <<"o">>, <<"-", "-", "-", "o">> }

ProgressTokens ==
    { <<"p">>,
      <<"-", "-", "o">>,
      <<"-", "-", "-", "o">>,
      <<"-", "-", "o", "=", "a">> }

ProgressVectors == SeqsUpTo(ProgressTokens, MaxArgs)

NextProgress ==
    \/ \E name \in ProgressNames, numArgs \in Arities :
           SettingUp /\ AddParameter(name, <<>>, numArgs)
    \/ \E args \in ProgressVectors : SettingUp /\ Evaluate(args)

SpecProgress == Init /\ [][NextProgress]_vars

-----------------------------------------------------------------------------
(* What the claims read off a token and off the last Evaluate              *)

\* the 1-based place of the first c in s, or 0
RECURSIVE IndexFrom(_, _, _)
IndexFrom(s, c, i) ==
    IF i > Len(s) THEN 0 ELSE IF s[i] = c THEN i ELSE IndexFrom(s, c, i + 1)

FirstEq(tok) == IndexFrom(tok, "=", 1)

CountEq(tok) == Cardinality({i \in 1..Len(tok) : tok[i] = "="})

\* the option name a token carries: its prefix and all from its first '=' stripped
StrippedName(tok) ==
    getOptionName(IF FirstEq(tok) = 0 THEN tok ELSE Take(tok, FirstEq(tok) - 1))

\* all that follows the first '=' of a token
AfterEq(tok) == Drop(tok, FirstEq(tok))

Evaluated == ret.op = "Evaluate" /\ Len(ret.args) > 0

\* the iterations of the option loop of the last Evaluate
Iterations == 1..Len(ret.trace)

\* the token iteration j started at, and its index
StartOf(j) == ret.trace[j]

TokenOf(j) == At(ret.args, StartOf(j))

\* iteration j met an option token whose name is a registry key
Recognized(j) == isOption(TokenOf(j)) /\ StrippedName(TokenOf(j)) \in DOMAIN aliases

ArityOf(j) == defs[aliases[StrippedName(TokenOf(j))]].numArgs

\* tokens that follow the option token of iteration j
AvailableAt(j) == Len(ret.args) - (StartOf(j) + 1)

\* argument values iteration j still needs from the tokens that follow
NeededAt(j) ==
    IF ArityOf(j) > 0 /\ CountEq(TokenOf(j)) > 0 THEN ArityOf(j) - 1 ELSE ArityOf(j)

\* iteration j returned to the loop without error or panic
Completed(j) == j < Len(ret.trace) \/ (~ret.panic /\ ret.err = NilError)

\* where the loop went on after iteration j
ResumedAt(j) == IF j < Len(ret.trace) THEN StartOf(j + 1) ELSE ret.argIdx

-----------------------------------------------------------------------------
(* C1: for a registered option with arity >= 1, a token with more than one *)
(* '=' yields an occurrence whose first argument value is all that follows *)
(* the first '=' of that token, and Evaluate does not panic building it.   *)
C1_RejoinsOwnFragments ==
    Evaluated =>
        \A j \in Iterations :
            (Recognized(j) /\ ArityOf(j) >= 1 /\ CountEq(TokenOf(j)) > 1) =>
                /\ ~(ret.panic /\ j = Len(ret.trace))
                /\ j <= Len(options) =>
                       /\ Len(options[j].value) >= 1
                       /\ options[j].value[1] = trimArg(AfterEq(TokenOf(j)))

(* C8: for a registered option of arity n >= 1 given as --opt=value with   *)
(* one '=', and n-1 tokens after it, Evaluate records an occurrence whose  *)
(* values are value and the next n-1 tokens, trimmed, in order, and goes   *)
(* on at the token after them.                                             *)
C8_FoldedThenFollowing ==
    Evaluated =>
        \A j \in Iterations :
            (/\ Recognized(j) /\ ArityOf(j) >= 1 /\ CountEq(TokenOf(j)) = 1
             /\ AvailableAt(j) >= ArityOf(j) - 1) =>
                /\ Completed(j)
                /\ j <= Len(options)
                /\ options[j].value =
                       <<trimArg(AfterEq(TokenOf(j)))>> \o
                       [i \in 1..(ArityOf(j) - 1) |-> trimArg(At(ret.args, StartOf(j) + i))]
                /\ ResumedAt(j) = StartOf(j) + ArityOf(j)

\* an option of arity 2 given as --o=a, its second value taken from the next
\* token, and the loop gone on to a third token
C8_Witness ==
    /\ Evaluated
    /\ \E j \in Iterations :
           /\ Recognized(j) /\ ArityOf(j) = 2 /\ CountEq(TokenOf(j)) = 1
           /\ j < Len(ret.trace)
           /\ j <= Len(options) /\ Len(options[j].value) = 2

(* C9: when a recognized option needs more argument values than tokens     *)
(* follow it, Evaluate returns "Too few option arguments" with the counts  *)
(* and records no occurrence for it; when enough follow, it does not.      *)
C9_TooFewExactly ==
    Evaluated =>
        \A j \in Iterations :
            Recognized(j) =>
                IF NeededAt(j) > AvailableAt(j)
                THEN /\ j = Len(ret.trace)
                     /\ ~ret.panic
                     /\ ret.err = TooFewError(AvailableAt(j), NeededAt(j))
                     /\ Len(options) = j - 1
                ELSE ~(j = Len(ret.trace) /\ ret.err.kind = "Too few option arguments")

(* C10: an option token whose stripped name is no registry key makes       *)
(* Evaluate return "Unrecognized option" naming that stripped name, at     *)
(* once: it is the last token the loop looks at, no occurrence is recorded *)
(* for it and no extra argument is recorded.                               *)
C10_UnrecognizedStopsAtOnce ==
    Evaluated =>
        \A j \in Iterations :
            (isOption(TokenOf(j)) /\ StrippedName(TokenOf(j)) \notin DOMAIN aliases) =>
                /\ j = Len(ret.trace)
                /\ ~ret.panic
                /\ ret.err = UnrecognizedError(StrippedName(TokenOf(j)))
                /\ Len(options) = j - 1
                /\ extra = <<>>

\* "-z=a" met after a recorded option and before a further token
C10_Witness ==
    /\ Evaluated
    /\ ret.err = UnrecognizedError(<<"z">>)
    /\ Len(options) >= 1
    /\ ret.argIdx < Len(ret.args)

(* C2: after Evaluate returns an error, GetArgLength() is 0 and            *)
(* GetArgExtraLength() is 0.                                               *)
C2_ErrorLeavesNothing ==
    (Evaluated /\ ~ret.panic /\ ret.err # NilError) =>
        (GetArgLength = 0 /\ GetArgExtraLength = 0)

(* C3: GetArgExtra(index) returns the empty string for every index outside *)
(* 0..GetArgExtraLength()-1 and the extra argument for an index inside,    *)
(* and never panics.                                                       *)
C3_ExtraOutOfRangeIsEmpty ==
    ret.op = "GetArgExtra" =>
        /\ ~ret.panic
        /\ ret.value = IF 0 <= ret.index /\ ret.index < GetArgExtraLength
                       THEN At(extra, ret.index) ELSE <<>>

(* C4: for every key of the registry, the canonical name of the definition *)
(* the key resolves to is itself a key of the registry.                    *)
C4_CanonicalNameIsKey ==
    \A k \in DOMAIN aliases : defs[aliases[k]].name \in DOMAIN aliases

(* C5: after a successful Evaluate that parsed an option token naming the  *)
(* registry key k, GetArgExists(k) and GetArgExists(canonical name of k's  *)
(* definition) are both true.                                              *)
C5_ExistsByKeyAndCanonical ==
    (Evaluated /\ ~ret.panic /\ ret.err = NilError) =>
        \A j \in Iterations :
            Recognized(j) =>
                /\ GetArgExistsResult(StrippedName(TokenOf(j)))
                /\ GetArgExistsResult(defs[aliases[StrippedName(TokenOf(j))]].name)

(* C6: RemoveParameter(name), when name resolves to a definition d,        *)
(* deletes every key bound to d, returns true and leaves every key bound   *)
(* to another definition bound to it; when name resolves to nothing it     *)
(* returns false and leaves the registry unchanged.                        *)
C6_RemoveByIdentity ==
    [][\A name \in RegNames :
           RemoveParameter(name) =>
               LET k == getOptionName(name)
               IN  IF k \in DOMAIN aliases
                   THEN /\ ret'.ok
                        /\ \A x \in DOMAIN aliases :
                               IF aliases[x] = aliases[k]
                               THEN x \notin DOMAIN aliases'
                               ELSE x \in DOMAIN aliases' /\ aliases'[x] = aliases[x]
                   ELSE ~ret'.ok /\ aliases' = aliases /\ defs' = defs]_vars

(* C7: after AddParameter(name, aliases, n) with a non-empty normalized    *)
(* name, name and every non-empty normalized alias resolve to one          *)
(* definition of arity max(n, 0); a name bound before keeps its            *)
(* definition, so every key bound to it before still resolves to it.       *)
C7_AddBindsOneDefinition ==
    [][\A name \in RegNames, als \in RegAliases, numArgs \in RegArities :
           (AddParameter(name, als, numArgs) /\ Len(getOptionName(name)) > 0) =>
               LET k    == getOptionName(name)
                   keys == {k} \cup ({getOptionName(als[i]) : i \in 1..Len(als)} \ {<<>>})
               IN  /\ keys \subseteq DOMAIN aliases'
                   /\ \A x \in keys : aliases'[x] = aliases'[k]
                   /\ defs'[aliases'[k]].numArgs = IF numArgs < 0 THEN 0 ELSE numArgs
                   /\ k \in DOMAIN aliases =>
                          /\ aliases'[k] = aliases[k]
                          /\ defs'[aliases'[k]].name = defs[aliases[k]].name
                          /\ \A x \in DOMAIN aliases :
                                 aliases[x] = aliases[k] =>
                                     x \in DOMAIN aliases' /\ aliases'[x] = aliases[k]]_vars

\* a name bound before is added again: three keys share its definition, which
\* carries the arity of the last call
C7_Witness ==
    /\ ret.op = "AddParameter" /\ ret.ok
    /\ Cardinality(DOMAIN aliases) = 3
    /\ \A x \in DOMAIN aliases :
           aliases[x] = aliases[<<"a">>] /\ defs[aliases[x]].numArgs = MaxArity

-----------------------------------------------------------------------------
(* What an argument vector says by itself, read against the registry       *)

Succeeded == Evaluated /\ ~ret.panic /\ ret.err = NilError

\* the index option parsing starts at: after self, when args[0] is self
FirstOptionIndex(args) == IF isOption(At(args, 0)) THEN 0 ELSE 1

\* argument values the option token tok takes from the tokens that follow it
NeededBy(tok) ==
    LET n == defs[aliases[StrippedName(tok)]].numArgs
    IN  IF n > 0 /\ CountEq(tok) > 0 THEN n - 1 ELSE n

\* the index of the first token from i on that is no option token, stepping
\* over each option token and the tokens it takes; Len(args) when there is none
RECURSIVE ExtraStart(_, _)
ExtraStart(args, i) ==
    IF i >= Len(args) \/ ~isOption(At(args, i)) THEN i
    ELSE ExtraStart(args, i + 1 + NeededBy(At(args, i)))

(* C11: after a successful Evaluate the first token, after self and after  *)
(* the tokens taken by the options before it, that is no option token and  *)
(* every token after it are the extra arguments, in order and verbatim:    *)
(* GetArgExtraLength() counts them and GetArgExtra(i) is the i-th.         *)
C11_ExtraIsTheTail ==
    Succeeded =>
        LET s == ExtraStart(ret.args, FirstOptionIndex(ret.args))
        IN  /\ extra = Drop(ret.args, s)
            /\ GetArgExtraLength = Len(ret.args) - s
            /\ \A i \in 0..(Len(ret.args) - s - 1) :
                   GetArgExtraResult(i) = [panic |-> FALSE, value |-> At(ret.args, s + i)]

\* an option was parsed, and an option-looking token is among the extras
C11_Witness ==
    /\ Succeeded
    /\ Len(options) >= 1
    /\ \E i \in 2..Len(extra) : isOption(extra[i]) /\ ~isOption(extra[1])

\* the argument values the option token at index i is to carry: what follows
\* its first '=', when it takes values and has one, then the tokens it takes
ValuesAt(args, i) ==
    LET tok == At(args, i)
        n   == defs[aliases[StrippedName(tok)]].numArgs
    IN  (IF n > 0 /\ CountEq(tok) > 0 THEN <<trimArg(AfterEq(tok))>> ELSE <<>>)
        \o [k \in 1..NeededBy(tok) |-> trimArg(At(args, i + k))]

\* the occurrences the option tokens from index i on are to give, in order
RECURSIVE OccurrencesFrom(_, _)
OccurrencesFrom(args, i) ==
    IF i >= Len(args) \/ ~isOption(At(args, i)) THEN <<>>
    ELSE <<[name  |-> defs[aliases[StrippedName(At(args, i))]].name,
            value |-> ValuesAt(args, i)]>>
         \o OccurrencesFrom(args, i + 1 + NeededBy(At(args, i)))

(* C12: after a successful Evaluate the option list holds one occurrence   *)
(* per option token parsed, in input order, repeated options all kept:     *)
(* GetArgLength() is their number and GetArgAt(i) is the i-th, with        *)
(* Index = i, its canonical name and its own argument values.              *)
C12_OneOccurrencePerToken ==
    Succeeded =>
        LET occ == OccurrencesFrom(ret.args, FirstOptionIndex(ret.args))
        IN  /\ GetArgLength = Len(occ)
            /\ \A i \in 0..(Len(occ) - 1) :
                   GetArgAtResult(i) =
                       [arg |-> [Index |-> i, Name |-> At(occ, i).name,
                                 Arguments |-> At(occ, i).value],
                        err |-> FALSE]

(* C13: Evaluate called a second time, right after Evaluate of the same    *)
(* vector, gives the same return and leaves the same result: self, the     *)
(* option count, every GetArgAt(i), the extras and every query by name.    *)
C13_EvaluateTwiceAsOnce ==
    [][(ret'.op = "Evaluate" /\ ret'.again) =>
           /\ ret'.err = ret.err /\ ret'.panic = ret.panic
           /\ GetArgSelf' = GetArgSelf
           /\ GetArgLength' = GetArgLength
           /\ GetArgExtraLength' = GetArgExtraLength
           /\ extra' = extra
           /\ \A i \in (0 - MaxArgs)..MaxArgs : GetArgAtResult(i)' = GetArgAtResult(i)
           /\ \A name \in Names :
                  /\ GetArgExistsResult(name)' = GetArgExistsResult(name)
                  /\ GetFirstArgOfResult(name)' = GetFirstArgOfResult(name)
                  /\ GetLastArgOfResult(name)' = GetLastArgOfResult(name)
                  /\ \A i \in (0 - MaxArgs)..MaxArgs :
                         GetArgIndexResult(name, i)' = GetArgIndexResult(name, i)]_vars

\* the same vector evaluated twice in a row, with options and extras parsed
C13_Witness ==
    /\ Succeeded /\ ret.again
    /\ Len(options) >= 1 /\ Len(extra) >= 1

(* C14: Evaluate with a nil or empty argument vector returns no error and  *)
(* leaves self, the option list, the extra list and the registry as they   *)
(* were.                                                                   *)
C14_EmptyVectorChangesNothing ==
    [][(ret'.op = "Evaluate" /\ Len(ret'.args) = 0) =>
           /\ ret'.err = NilError /\ ~ret'.panic
           /\ self' = self /\ options' = options /\ extra' = extra
           /\ aliases' = aliases /\ defs' = defs]_vars

\* an empty vector evaluated after a vector that left self, an option and an
\* extra argument, all still there
C14_Witness ==
    /\ ret.op = "Evaluate" /\ Len(ret.args) = 0
    /\ Len(self) > 0 /\ Len(options) >= 1 /\ Len(extra) >= 1

(* C15: with n recorded occurrences, GetArgAt(-k) for 1 <= k <= n returns  *)
(* the Argument GetArgAt(n-k) returns, which is occurrence n-k with        *)
(* Index n-k; every index outside -n..n-1 returns an error.                *)
C15_NegativeIndexMirrors ==
    ret.op = "GetArgAt" =>
        LET n == Len(options)
            i == IF ret.index < 0 THEN n + ret.index ELSE ret.index
        IN  IF (0 - n) <= ret.index /\ ret.index <= n - 1
            THEN /\ ~ret.err
                 /\ ret.arg = [Index |-> i, Name |-> At(options, i).name,
                               Arguments |-> At(options, i).value]
                 /\ ret.arg = GetArgAtResult(i).arg
            ELSE ret.err

\* at(-1) of three occurrences is at(2)
C15_Witness ==
    /\ ret.op = "GetArgAt" /\ ret.index = 0 - 1
    /\ Len(options) = 3
    /\ ~ret.err /\ ret.arg.Index = 2

\* the canonical name a name resolves to through the registry
CanonicalName(name) == defs[aliases[getOptionName(name)]].name

\* the 0-based indexes of the occurrences recorded under the name long
OccurrencesOf(long) == {i \in 0..(Len(options) - 1) : At(options, i).name = long}

\* occurrence i as GetArgAt returns it
ArgumentAt(i) ==
    [Index |-> i, Name |-> At(options, i).name, Arguments |-> At(options, i).value]

(* C16: when GetArgIndex(name, s) returns (pos, true), pos >= 0 for s >= 0 *)
(* and pos < 0 for s < 0, GetArgAt(pos) succeeds, and what it returns is   *)
(* the occurrence of name's canonical name nearest to the start in the     *)
(* search direction: the first at or after s, the last at or before        *)
(* len+s.  GetFirstArgOf returns the lowest and GetLastArgOf the highest   *)
(* occurrence of the name.                                                 *)
C16_IndexSignAndNearest ==
    /\ (ret.op = "GetArgIndex" /\ ret.exists) =>
           LET n    == Len(options)
               s    == ret.startIndex
               at   == GetArgAtResult(ret.pos)
               long == CanonicalName(ret.name)
           IN  /\ getOptionName(ret.name) \in DOMAIN aliases
               /\ IF s >= 0 THEN ret.pos >= 0 ELSE ret.pos < 0
               /\ ~at.err
               /\ at.arg.Index \in OccurrencesOf(long)
               /\ at.arg = ArgumentAt(at.arg.Index)
               /\ IF s >= 0
                  THEN /\ at.arg.Index >= s
                       /\ \A i \in OccurrencesOf(long) : i >= s => i >= at.arg.Index
                  ELSE /\ at.arg.Index <= n + s
                       /\ \A i \in OccurrencesOf(long) : i <= n + s => i <= at.arg.Index
    /\ (ret.op = "GetFirstArgOf" /\ ret.exists) =>
           /\ ret.arg.Index \in OccurrencesOf(CanonicalName(ret.name))
           /\ ret.arg = ArgumentAt(ret.arg.Index)
           /\ \A i \in OccurrencesOf(CanonicalName(ret.name)) : i >= ret.arg.Index
    /\ (ret.op = "GetLastArgOf" /\ ret.exists) =>
           /\ ret.arg.Index \in OccurrencesOf(CanonicalName(ret.name))
           /\ ret.arg = ArgumentAt(ret.arg.Index)
           /\ \A i \in OccurrencesOf(CanonicalName(ret.name)) : i <= ret.arg.Index

\* a backward search from behind the last option that passes an occurrence of
\* another name, and is asked by the alias of the option it finds
C16_Witness ==
    /\ ret.op = "GetArgIndex" /\ ret.exists
    /\ ret.startIndex = 0 - 1 /\ ret.pos < 0 - 1
    /\ ret.name # CanonicalName(ret.name)

(* C17: for a name that resolves to no registry key, GetArgExists returns  *)
(* false and GetArgIndex, GetFirstArgOf and GetLastArgOf report            *)
(* exists = false, also when an occurrence recorded under that name before *)
(* a RemoveParameter is still in the option list.                          *)
C17_UnresolvedNameIsNotFound ==
    /\ (ret.op = "GetArgExists" /\ getOptionName(ret.name) \notin DOMAIN aliases) =>
           ~ret.value
    /\ (/\ ret.op \in {"GetArgIndex", "GetFirstArgOf", "GetLastArgOf"}
        /\ getOptionName(ret.name) \notin DOMAIN aliases) =>
           ~ret.exists

\* "a" asked for after RemoveParameter("a"), its occurrence still recorded
C17_Witness ==
    /\ ret.op \in {"GetArgExists", "GetArgIndex", "GetFirstArgOf", "GetLastArgOf"}
    /\ ret.name = <<"a">>
    /\ <<"a">> \notin DOMAIN aliases
    /\ OccurrencesOf(<<"a">>) # {}

(* C18: Int() returns the value of the first that succeeds of the integer  *)
(* parse by base prefix, the float parse cut toward zero and the boolean   *)
(* words (true is 1, false is 0), with ok = true, and ok = false only when *)
(* all three fail; "true" gives (1, true), "0x1F" (31, true) and "3.9"     *)
(* (3, true).                                                              *)
C18_IntCascade ==
    ret.op = "Int" =>
        LET i == ParseInt(ret.t)
            f == ParseFloat(ret.t)
            b == ParseBool(ret.t)
        IN  /\ ret.ok = (i.ok \/ f.ok \/ b.ok)
            /\ i.ok => ret.ret = i.val
            /\ (~i.ok /\ f.ok) => ret.ret = Truncated(f)
            /\ (~i.ok /\ ~f.ok /\ b.ok) => ret.ret = (IF b.val THEN One64 ELSE Zero64)
            /\ ret.t = <<"t", "r", "u", "e">> => (ret.ret = One64 /\ ret.ok)
            /\ ret.t = <<"0", "x", "1", "F">> => (ret.ret = Int64(FALSE, <<"3", "1">>) /\ ret.ok)
            /\ ret.t = <<"3", ".", "9">> => (ret.ret = Int64(FALSE, <<"3">>) /\ ret.ok)

\* the texts the option token at index i takes its argument values from
SourcesAt(args, i) ==
    LET tok == At(args, i)
        n   == defs[aliases[StrippedName(tok)]].numArgs
    IN  (IF n > 0 /\ CountEq(tok) > 0 THEN <<AfterEq(tok)>> ELSE <<>>)
        \o [k \in 1..NeededBy(tok) |-> At(args, i + k)]

\* a text without its blanks, and then without its leading double quote when
\* it starts with one and, after that, without a trailing one
LeadingThenTrailing(text) ==
    LET t == TrimSpace(text)
        u == IF Len(t) > 0 /\ t[1] = Quote THEN Tail(t) ELSE t
    IN  IF Len(t) > 0 /\ t[1] = Quote /\ Len(u) > 0 /\ u[Len(u)] = Quote
        THEN SubSeq(u, 1, Len(u) - 1)
        ELSE u

\* a text without its blanks, and then without its first and last character
\* when both are double quotes (a lone double quote is both)
MatchedQuotes(text) ==
    LET t == TrimSpace(text)
    IN  IF Len(t) > 0 /\ t[1] = Quote /\ t[Len(t)] = Quote
        THEN SubSeq(t, 2, Len(t) - 1)
        ELSE t

(* C19 as claimed: every argument value recorded by Evaluate is its text   *)
(* trimmed of blanks, then without its leading double quote if it starts   *)
(* with one, then without a trailing double quote if the rest ends with    *)
(* one: a text with a leading double quote alone loses that quote.         *)
C19_LeadingQuoteAlwaysStripped ==
    Evaluated =>
        \A j \in 1..Len(options) :
            options[j].value =
                [k \in 1..Len(SourcesAt(ret.args, StartOf(j))) |->
                     LeadingThenTrailing(SourcesAt(ret.args, StartOf(j))[k])]

(* C19 as amended: every argument value recorded by Evaluate is its text   *)
(* trimmed of blanks, and then without its first and last character only   *)
(* when it both starts and ends with a double quote; a text with a leading *)
(* double quote alone keeps it, and single quotes are never removed.       *)
C19_MatchedQuotesStripped ==
    Evaluated =>
        \A j \in 1..Len(options) :
            options[j].value =
                [k \in 1..Len(SourcesAt(ret.args, StartOf(j))) |->
                     MatchedQuotes(SourcesAt(ret.args, StartOf(j))[k])]

\* a value recorded without the quotes and blanks around it, once from the
\* token after the option and once from the fragment after '='
C19_Witness ==
    /\ Succeeded
    /\ Len(options) = 1 /\ options[1].value = << <<"h">> >>
    /\ SourcesAt(ret.args, StartOf(1)) \in { << <<" ", Quote, "h">> \o <<Quote>> >>,
                                            << <<Quote, "h", Quote>> >> }

\* a bare "-" or "--"
BareHyphens(tok) == tok \in { <<"-">>, <<"-", "-">> }

\* the option test as C20 words it: longer than 2 and starting with "--", or
\* longer than 1 and starting with "-", a bare "-" or "--" being none
OptionToken(tok) ==
    /\ ~BareHyphens(tok)
    /\ \/ Len(tok) > 2 /\ HasPrefix2(tok)
       \/ Len(tok) > 1 /\ HasPrefix1(tok)

(* C20: after a successful Evaluate of a non-empty vector GetArgSelf() is   *)
(* args[0] when args[0] is no option token, a bare "-" or "--" being none, *)
(* and is empty otherwise, args[0] then being parsed as the first option;  *)
(* a bare "-" or "--" the option loop comes to ends the loop without error *)
(* and is the first extra argument.                                        *)
C20_SelfAndBareHyphens ==
    /\ Succeeded =>
           IF OptionToken(At(ret.args, 0))
           THEN /\ GetArgSelf = <<>>
                /\ Len(ret.trace) >= 1 /\ StartOf(1) = 0
                /\ Len(options) >= 1
                /\ options[1].name = CanonicalName(StrippedName(At(ret.args, 0)))
           ELSE GetArgSelf = At(ret.args, 0)
    /\ Evaluated =>
           /\ BareHyphens(At(ret.args, 0)) =>
                  (GetArgSelf = At(ret.args, 0) /\ (Len(ret.trace) >= 1 => StartOf(1) = 1))
           /\ \A j \in Iterations :
                  (StartOf(j) > 0 /\ BareHyphens(TokenOf(j))) =>
                      /\ j = Len(ret.trace)
                      /\ ~ret.panic /\ ret.err = NilError
                      /\ Len(extra) >= 1 /\ extra[1] = TokenOf(j)

(* C21: every iteration of the option loop that parses an option moves the *)
(* token index on by at least one, so Evaluate never returns the error     *)
(* "Deadlock while evaluating parameters" and its loop ends after at most  *)
(* len(args) iterations.                                                   *)
C21_LoopAlwaysAdvances ==
    Evaluated =>
        /\ ret.err # DeadlockError
        /\ Len(ret.trace) <= Len(ret.args)
        /\ \A j \in Iterations :
               /\ (Recognized(j) /\ Completed(j)) => ResumedAt(j) >= StartOf(j) + 1
               /\ j < Len(ret.trace) => StartOf(j + 1) > StartOf(j)

\* a vector without self, every token of it an option of its own iteration
C21_Witness ==
    /\ Succeeded
    /\ Len(ret.args) >= 2
    /\ Len(ret.trace) = Len(ret.args)
    /\ Len(options) = Len(ret.args)

(* C22: after a successful Evaluate every recorded occurrence holds as     *)
(* many argument values as the arity of its definition; a fragment after   *)
(* '=' on an option of arity 0 is dropped without error, adds no value and *)
(* takes no following token.                                               *)
C22_ValueCountIsArity ==
    Succeeded =>
        /\ \A j \in 1..Len(options) :
               /\ Recognized(j)
               /\ Len(options[j].value) = ArityOf(j)
        /\ \A j \in Iterations :
               (Recognized(j) /\ ArityOf(j) = 0 /\ CountEq(TokenOf(j)) > 0) =>
                   /\ j <= Len(options)
                   /\ options[j].value = <<>>
                   /\ ResumedAt(j) = StartOf(j) + 1

\* an option of arity 0 given with a fragment after '=' and a token after it,
\* which the loop goes on to
C22_Witness ==
    /\ Succeeded
    /\ \E j \in 1..Len(options) :
           /\ ArityOf(j) = 0 /\ CountEq(TokenOf(j)) > 0
           /\ options[j].value = <<>>
           /\ j < Len(ret.trace) /\ StartOf(j + 1) = StartOf(j) + 1

=============================================================================
